---- MODULE Spec2Model ----
(***************************************************************************)
(* Turn processing of the AICompanionRPG client: the Story Weaver          *)
(* classifier (story-weaver-service.ts), the turn executor of the          *)
(* conversation manager composable, the adventure state composable and     *)
(* the adventure setup composable.  Every await of the TypeScript code is  *)
(* a point where another handler may run, so every handler is cut into one *)
(* action per await; the code between two awaits is one atomic step.       *)
(***************************************************************************)
EXTENDS Integers, Sequences, FiniteSets, TLC

(***************************************************************************)
(* Bounds of the model.  MaxTurns bounds the accepted turns where the turn *)
(* executor is taken with the reset alone (SpecTurns), MaxSessionTurns     *)
(* where it runs together with adventure setup and speech recognition      *)
(* (Spec, SpecAdventure, SpecPlaying).  MaxStopClicks bounds the stop      *)
(* clicks of the player, MaxNarrationWords the length of the scene texts   *)
(* the keyword fold is given.                                              *)
(***************************************************************************)
MaxTurns == 5
MaxSessionTurns == 2
MaxResets == 1
MaxSetups == 1
MaxConcurrent == 2
MaxStopClicks == 1
MaxNarrationWords == 8

(***************************************************************************)
(* Program constants.                                                      *)
(***************************************************************************)
MinThreshold == 1
MaxThreshold == 5
SceneElementsKept == 5

Slots == 1..MaxConcurrent

ValidResponseTypes ==
  {"exploration", "dialogue_attempt", "companion_dialogue",
   "companion_introduction", "examination"}

(***************************************************************************)
(* Utterances are sequences of characters, so that toLowerCase() and       *)
(* includes() are computed and not assumed.                                *)
(***************************************************************************)
Utterances ==
  { <<"h","e","l","l","o">>,
    <<"l","o","o","k"," ","a","r","o","u","n","d">>,
    <<"r","u","n"," ","n","o","r","t","h">>,
    <<"H","I">>,
    <<"s","a","y"," ","l","o","o","k">> }

NoInput == << >>

ToLowerChar(c) ==
  CASE c = "H" -> "h"
    [] c = "I" -> "i"
    [] c = "L" -> "l"
    [] c = "S" -> "s"
    [] c = "T" -> "t"
    [] OTHER -> c

ToLowerCase(s) == [i \in 1..Len(s) |-> ToLowerChar(s[i])]

Includes(s, k) ==
  \E i \in 0..(Len(s) - Len(k)) : \A j \in 1..Len(k) : s[i + j] = k[j]

(***************************************************************************)
(* What the text generation backend can hand to decideResponse: the call   *)
(* throws, the text is not JSON, the JSON is not an object (null or a      *)
(* primitive, on which the property write of an ES module throws), or an   *)
(* object with any responseType, image flag and image prompt.  The texts   *)
(* of messages are not part of the model.                                  *)
(***************************************************************************)
LlmResponseTypes == ValidResponseTypes \cup {"bogus", "missing"}

LlmFailure(k) ==
  [kind |-> k, responseType |-> "missing", shouldGenerateImage |-> FALSE,
   imagePrompt |-> FALSE]

LlmOutcomes ==
  { LlmFailure(k) : k \in {"throw", "unparsable", "nonobject"} } \cup
  [kind : {"object"}, responseType : LlmResponseTypes,
   shouldGenerateImage : BOOLEAN, imagePrompt : BOOLEAN]

NoLlm == LlmFailure("none")

NoDecision ==
  [responseType |-> "none", shouldGenerateImage |-> FALSE,
   imagePrompt |-> FALSE]

NoCall ==
  [pc |-> "none", userInput |-> NoInput,
   gameState |-> [isCompanionPresent |-> FALSE],
   shouldIntroduceCompanion |-> FALSE, llm |-> NoLlm,
   classified |-> NoDecision, decision |-> NoDecision, dispatched |-> "none"]

(***************************************************************************)
(* A fallback that tests the look keywords before the greeting keywords.   *)
(***************************************************************************)
fallbackDecisionLookFirst(userInput, gameState) ==
  LET input == ToLowerCase(userInput) IN
  IF gameState.isCompanionPresent
  THEN [responseType |-> "companion_dialogue", shouldGenerateImage |-> FALSE,
        imagePrompt |-> FALSE]
  ELSE IF \/ Includes(input, <<"l","o","o","k">>)
          \/ Includes(input, <<"e","x","a","m","i","n","e">>)
          \/ Includes(input, <<"i","n","s","p","e","c","t">>)
  THEN [responseType |-> "examination", shouldGenerateImage |-> FALSE,
        imagePrompt |-> FALSE]
  ELSE IF \/ Includes(input, <<"h","e","l","l","o">>)
          \/ Includes(input, <<"h","i">>)
          \/ Includes(input, <<"s","a","y">>)
          \/ Includes(input, <<"t","a","l","k">>)
  THEN [responseType |-> "dialogue_attempt", shouldGenerateImage |-> FALSE,
        imagePrompt |-> FALSE]
  ELSE [responseType |-> "exploration", shouldGenerateImage |-> TRUE,
        imagePrompt |-> FALSE]

(***************************************************************************)
(* StoryWeaverService.fallbackDecision                                     *)
(***************************************************************************)
fallbackDecision(userInput, gameState) ==
  LET input == ToLowerCase(userInput) IN
  IF gameState.isCompanionPresent
  THEN [responseType |-> "companion_dialogue", shouldGenerateImage |-> FALSE,
        imagePrompt |-> FALSE]
  ELSE IF \/ Includes(input, <<"h","e","l","l","o">>)
          \/ Includes(input, <<"h","i">>)
          \/ Includes(input, <<"s","a","y">>)
          \/ Includes(input, <<"t","a","l","k">>)
  THEN [responseType |-> "dialogue_attempt", shouldGenerateImage |-> FALSE,
        imagePrompt |-> FALSE]
  ELSE IF \/ Includes(input, <<"l","o","o","k">>)
          \/ Includes(input, <<"e","x","a","m","i","n","e">>)
          \/ Includes(input, <<"i","n","s","p","e","c","t">>)
  THEN [responseType |-> "examination", shouldGenerateImage |-> FALSE,
        imagePrompt |-> FALSE]
  ELSE [responseType |-> "exploration", shouldGenerateImage |-> TRUE,
        imagePrompt |-> FALSE]

(***************************************************************************)
(* A validation that lets any responseType through.                        *)
(***************************************************************************)
CoerceResponseTypeKept(rt) == rt

(***************************************************************************)
(* The validation of the parsed model output in decideResponse.            *)
(***************************************************************************)
CoerceResponseType(rt) ==
  IF rt \in ValidResponseTypes THEN rt ELSE "exploration"

(***************************************************************************)
(* An image flag left as the model output has it.                          *)
(***************************************************************************)
ForceImageFlagKept(rt, flag) == flag

(***************************************************************************)
(* The image flag that decideResponse sets from the responseType.          *)
(***************************************************************************)
ForceImageFlag(rt, flag) ==
  IF rt = "exploration" \/ rt = "companion_introduction" THEN TRUE
  ELSE IF rt = "examination" THEN flag
  ELSE FALSE

EnsureImagePrompt(rt, flag, prompt) ==
  IF ~flag THEN FALSE
  ELSE IF prompt THEN TRUE
  ELSE rt \in {"exploration", "companion_introduction", "examination"}

(***************************************************************************)
(* StoryWeaverService.decideResponse                                       *)
(***************************************************************************)
decideResponse(llm, userInput, gameState) ==
  IF llm.kind # "object"
  THEN fallbackDecision(userInput, gameState)
  ELSE LET rt == CoerceResponseType(llm.responseType)
           flag == ForceImageFlag(rt, llm.shouldGenerateImage)
       IN [responseType |-> rt,
           shouldGenerateImage |-> flag,
           imagePrompt |-> EnsureImagePrompt(rt, flag, llm.imagePrompt)]


(***************************************************************************)
(* State.  chatHistory and nextMessageId .. isNarrating belong to          *)
(* useAdventureState, worldSetting .. isSpeaking to useConversationManager.*)
(* turn[s] holds the locals of one invocation of processUserInput, listen  *)
(* the pending call of startListening, setup the pending call of           *)
(* handleStartAdventureSetup.  resetCount and setupCount only bound the    *)
(* model.  weaver is a call of the classifier taken on its own.  micMuted  *)
(* is the microphone of the live audio component; stopClicks counts the    *)
(* stop clicks of the player and only bounds the model.                    *)
(***************************************************************************)
VARIABLES chatHistory, nextMessageId, selectedGenre, isGameScreenActive,
          isLoadingAdventure, isLoadingCharacter, isLoadingScene,
          isNarrating, isCharacterGenerated,
          isCompanionPresent, userResponseCount,
          companionAppearanceThreshold,
          isListening, isProcessing, isSpeaking,
          turn, listen, setup, resetCount, setupCount, weaver,
          worldSetting, currentLocationDescription, recentSceneElements,
          audioState, deferred, stt,
          micMuted, stopClicks

adventureVars ==
  <<chatHistory, nextMessageId, selectedGenre, isGameScreenActive,
    isLoadingAdventure, isLoadingCharacter, isLoadingScene, isNarrating,
    isCharacterGenerated>>

loadingVars ==
  <<selectedGenre, isGameScreenActive, isLoadingAdventure,
    isLoadingCharacter, isLoadingScene, isCharacterGenerated>>

vars ==
  <<chatHistory, nextMessageId, selectedGenre, isGameScreenActive,
    isLoadingAdventure, isLoadingCharacter, isLoadingScene,
    isNarrating, isCharacterGenerated,
    isCompanionPresent, userResponseCount, companionAppearanceThreshold,
    isListening, isProcessing, isSpeaking,
    turn, listen, setup, resetCount, setupCount, weaver,
    worldSetting, currentLocationDescription, recentSceneElements,
    micMuted, stopClicks, audioState, deferred, stt>>

(***************************************************************************)
(* The session refs of the conversation manager that hold the scene, and   *)
(* the state of the audio input.                                           *)
(***************************************************************************)
sceneVars ==
  <<worldSetting, currentLocationDescription, recentSceneElements>>

audioVars == <<micMuted, stopClicks>>

(***************************************************************************)
(* The state of the audio event bus, and whether a call of                 *)
(* onStartOrResumeAdventure has returned at its check of the bus, leaving  *)
(* the start of listening to the watcher of the bus.                       *)
(***************************************************************************)
busVars == <<audioState, deferred>>

(***************************************************************************)
(* STTService with its recogniser: the isListening flag of the service;    *)
(* the recognition session of the browser (inactive, starting once start() *)
(* is called, running once onstart has fired, stopping once stop() is      *)
(* called, failed between onerror and onend); the call of startListening   *)
(* whose closures are the handlers of the recogniser, with the locals      *)
(* finalTranscript (non-empty or not) and hasSpokenSomething of that call; *)
(* and the promise each call of startListening has returned.               *)
(***************************************************************************)
MaxListenCalls == 3

ListenCalls == 1..MaxListenCalls

STTInit ==
  [isListening |-> FALSE, session |-> "inactive", owner |-> 0,
   finalTranscript |-> FALSE, hasSpokenSomething |-> FALSE,
   promise |-> [c \in ListenCalls |-> "none"], calls |-> 0]

(***************************************************************************)
(* AudioEventBus: the state each of its methods assigns.                   *)
(***************************************************************************)
IdleAudio ==
  [isTTSPlaying |-> FALSE, isSTTActive |-> FALSE, source |-> "idle"]

startTTS(source) ==
  [isTTSPlaying |-> TRUE, isSTTActive |-> FALSE, source |-> source]

endTTS == IdleAudio

pauseSTT(state) == [state EXCEPT !.isSTTActive = FALSE]

resumeSTT(state) == [state EXCEPT !.isSTTActive = TRUE]

reset == IdleAudio

(***************************************************************************)
(* The watcher of the bus in the conversation manager, second branch: the  *)
(* change of state it answers by starting to listen a second later.  (Its  *)
(* first branch pauses the recogniser when speech starts, which ends the   *)
(* recognition session; the session may end at any time in this model.)    *)
(***************************************************************************)
WatcherResumes(newState, oldState) ==
  newState.isSTTActive /\ ~newState.isTTSPlaying /\ oldState.isTTSPlaying

(***************************************************************************)
(* The locals of an invocation of processUserInput that is not running.    *)
(***************************************************************************)
IdleTurn ==
  [pc |-> "idle", source |-> "none", userInput |-> NoInput, serial |-> 0,
   gameState |-> [isCompanionPresent |-> FALSE, currentScene |-> NoInput,
                  recentSceneElements |-> << >>],
   narrationText |-> NoInput, imageRequested |-> FALSE, adventure |-> 0,
   shouldIntroduceCompanion |-> FALSE,
   decision |-> NoDecision, dispatched |-> "none", msgId |-> 0,
   appended |-> << >>, rejected |-> FALSE, narrating |-> FALSE]

BodyPcs ==
  {"classify", "ci_gen", "ci_img", "ci_play", "ex_gen", "ex_img", "ex_play",
   "da_play", "exam_play", "cd_gen", "cd_speak", "returned"}

(***************************************************************************)
(* buildGameState: the view of the session the classifier is given.        *)
(***************************************************************************)
BeginningScene == <<"the beginning of your adventure">>

buildGameState ==
  [isCompanionPresent |-> isCompanionPresent,
   currentScene |-> IF currentLocationDescription = NoInput
                    THEN BeginningScene
                    ELSE currentLocationDescription,
   recentSceneElements |-> recentSceneElements]

(***************************************************************************)
(* id: chatHistory.value.length + 1, as every push of the conversation     *)
(* manager computes it.                                                    *)
(***************************************************************************)
NextId(chat) == Len(chat) + 1

Message(id, sender) == [id |-> id, sender |-> sender]

(***************************************************************************)
(* A guard that looks at isSpeaking alone.                                 *)
(***************************************************************************)
RejectsWhileSpeaking(processing, speaking) == speaking

(***************************************************************************)
(* The guard of processUserInput.                                          *)
(***************************************************************************)
Rejects(processing, speaking) == processing \/ speaking

(***************************************************************************)
(* A threshold test that fires one turn late.                              *)
(***************************************************************************)
ShouldIntroduceCompanionLate(present, count, threshold) ==
  ~present /\ count > threshold

(***************************************************************************)
(* shouldIntroduceCompanion and the override of the decision.              *)
(***************************************************************************)
ShouldIntroduceCompanion(present, count, threshold) ==
  ~present /\ count >= threshold

ApplyOverride(decision, shouldIntroduce) ==
  IF shouldIntroduce /\ decision.responseType # "companion_introduction"
  THEN [decision EXCEPT !.responseType = "companion_introduction"]
  ELSE decision

(***************************************************************************)
(* The switch of executeStoryWeaverDecision.                               *)
(***************************************************************************)
Dispatch(responseType) ==
  CASE responseType = "companion_introduction" -> "handleCompanionIntroduction"
    [] responseType = "exploration" -> "handleExploration"
    [] responseType = "dialogue_attempt" -> "handleDialogueAttempt"
    [] responseType = "examination" -> "handleExamination"
    [] responseType = "companion_dialogue" -> "handleCompanionDialogue"
    [] OTHER -> "default"

(***************************************************************************)
(* A catch block that takes the introduction back.                         *)
(***************************************************************************)
PresenceRevoked(present) == FALSE

(***************************************************************************)
(* isCompanionPresent after the catch block of handleCompanionIntroduction:*)
(* the block pushes the fallback message and leaves the flag alone.        *)
(***************************************************************************)
PresenceAfterIntroFallback(present) == present

ManagerInit ==
  /\ chatHistory = << >>
  /\ nextMessageId = 0
  /\ selectedGenre = ""
  /\ isGameScreenActive = FALSE
  /\ isLoadingAdventure = FALSE
  /\ isLoadingCharacter = FALSE
  /\ isLoadingScene = FALSE
  /\ isNarrating = FALSE
  /\ isCharacterGenerated = FALSE
  /\ isCompanionPresent = FALSE
  /\ userResponseCount = 0
  /\ companionAppearanceThreshold \in MinThreshold..MaxThreshold
  /\ isListening = FALSE
  /\ isProcessing = FALSE
  /\ isSpeaking = FALSE
  /\ turn = [s \in Slots |-> IdleTurn]
  /\ listen = "idle"
  /\ setup = "idle"
  /\ resetCount = 0
  /\ setupCount = 0
  /\ worldSetting = NoInput
  /\ currentLocationDescription = NoInput
  /\ recentSceneElements = << >>
  /\ micMuted = FALSE
  /\ stopClicks = 0
  /\ audioState = IdleAudio
  /\ deferred = FALSE
  /\ stt = STTInit

Init ==
  /\ ManagerInit
  /\ weaver = NoCall


(***************************************************************************)
(* useAdventureState.resetFullAdventureState, as far as the state of the   *)
(* model goes.  The refs of the conversation manager are not among the     *)
(* refs it assigns.                                                        *)
(***************************************************************************)
ResetEffect(genre, gameScreen, loading) ==
  /\ selectedGenre' = genre
  /\ isGameScreenActive' = gameScreen
  /\ isLoadingAdventure' = loading
  /\ isLoadingCharacter' = loading
  /\ isLoadingScene' = FALSE
  /\ isNarrating' = FALSE
  /\ isCharacterGenerated' = FALSE
  /\ chatHistory' = << >>
  /\ nextMessageId' = 0

(***************************************************************************)
(* handleQuotaExceeded('dialog'), raised by the live audio component at    *)
(* any time: a full reset.                                                 *)
(***************************************************************************)
HandleQuotaExceededDialog ==
  /\ resetCount < MaxResets
  /\ resetCount' = resetCount + 1
  /\ ResetEffect("", FALSE, FALSE)
  /\ UNCHANGED <<isCompanionPresent, userResponseCount,
                 companionAppearanceThreshold, isListening, isProcessing,
                 isSpeaking, turn, listen, setup, setupCount, weaver,
                 sceneVars, audioVars, busVars, stt>>

(***************************************************************************)
(* handleGenreSelected, offered by the selection panel (shown while the    *)
(* game screen is not active).                                             *)
(***************************************************************************)
HandleGenreSelected ==
  /\ ~isGameScreenActive
  /\ IF isGameScreenActive \/ isCharacterGenerated \/ isLoadingAdventure
     THEN /\ resetCount < MaxResets
          /\ resetCount' = resetCount + 1
          /\ ResetEffect("Fantasy", FALSE, FALSE)
     ELSE /\ selectedGenre = ""
          /\ selectedGenre' = "Fantasy"
          /\ UNCHANGED <<chatHistory, nextMessageId, isGameScreenActive,
                         isLoadingAdventure, isLoadingCharacter,
                         isLoadingScene, isNarrating, isCharacterGenerated,
                         resetCount>>
  /\ UNCHANGED <<isCompanionPresent, userResponseCount,
                 companionAppearanceThreshold, isListening, isProcessing,
                 isSpeaking, turn, listen, setup, setupCount, weaver,
                 sceneVars, audioVars, busVars, stt>>

(***************************************************************************)
(* handleStartAdventureSetup up to its first await (the consolidated       *)
(* generation call).  The button is disabled without a genre and while the *)
(* character is loading.                                                   *)
(***************************************************************************)
HandleStartAdventureSetup ==
  /\ ~isGameScreenActive
  /\ selectedGenre # ""
  /\ ~(isLoadingCharacter \/ (isLoadingScene /\ ~isCharacterGenerated))
  /\ setup = "idle"
  /\ setupCount < MaxSetups
  /\ setupCount' = setupCount + 1
  /\ ResetEffect(selectedGenre, TRUE, TRUE)
  /\ setup' = "su_gen"
  /\ UNCHANGED <<isCompanionPresent, userResponseCount,
                 companionAppearanceThreshold, isListening, isProcessing,
                 isSpeaking, turn, listen, resetCount, weaver,
                 sceneVars, audioVars, busVars, stt>>

(***************************************************************************)
(* The consolidated generation call returns.  valid: the data passes the   *)
(* validation, the character and scene refs are set and the scene image is *)
(* awaited.  invalid: the if is skipped and only the finally block runs.   *)
(* quota: the call threw with a quota message.  error: it threw otherwise, *)
(* and the catch block awaits the Gemini description.                      *)
(***************************************************************************)
SetupGenerated(outcome) ==
  /\ setup = "su_gen"
  /\ CASE outcome = "valid" ->
            /\ isCharacterGenerated' = TRUE
            /\ isLoadingCharacter' = FALSE
            /\ isLoadingScene' = TRUE
            /\ setup' = "su_img"
       [] outcome = "error" ->
            /\ setup' = "su_fallback"
            /\ UNCHANGED <<isCharacterGenerated, isLoadingCharacter,
                           isLoadingScene>>
       [] OTHER ->
            /\ isLoadingScene' = FALSE
            /\ setup' = "idle"
            /\ UNCHANGED <<isCharacterGenerated, isLoadingCharacter>>
  /\ UNCHANGED <<chatHistory, nextMessageId, selectedGenre,
                 isGameScreenActive, isLoadingAdventure, isNarrating,
                 isCompanionPresent, userResponseCount,
                 companionAppearanceThreshold, isListening, isProcessing,
                 isSpeaking, turn, listen, resetCount, setupCount, weaver,
                 sceneVars, audioVars, busVars, stt>>

SetupFallbackDone ==
  /\ setup = "su_fallback"
  /\ isLoadingScene' = FALSE
  /\ setup' = "idle"
  /\ UNCHANGED <<chatHistory, nextMessageId, selectedGenre,
                 isGameScreenActive, isLoadingAdventure, isLoadingCharacter,
                 isNarrating, isCharacterGenerated,
                 isCompanionPresent, userResponseCount,
                 companionAppearanceThreshold, isListening, isProcessing,
                 isSpeaking, turn, listen, resetCount, setupCount, weaver,
                 sceneVars, audioVars, busVars, stt>>

(***************************************************************************)
(* The scene image task settles (it never rejects): the initial message is *)
(* pushed with id nextMessageId++, the game screen is activated, the       *)
(* narration is started without being awaited, and the finally block runs. *)
(***************************************************************************)
SetupImageDone ==
  /\ setup = "su_img"
  /\ chatHistory' = Append(chatHistory,
                           Message(nextMessageId, "companion"))
  /\ nextMessageId' = nextMessageId + 1
  /\ isLoadingScene' = FALSE
  /\ isLoadingAdventure' = FALSE
  /\ isGameScreenActive' = TRUE
  /\ isNarrating' = TRUE
  /\ setup' = "su_narr"
  /\ UNCHANGED <<selectedGenre, isLoadingCharacter, isCharacterGenerated,
                 isCompanionPresent, userResponseCount,
                 companionAppearanceThreshold, isListening, isProcessing,
                 isSpeaking, turn, listen, resetCount, setupCount, weaver,
                 sceneVars, audioVars, busVars, stt>>

(***************************************************************************)
(* startNarration: the narration of the initial scene ends or fails.       *)
(***************************************************************************)
SetupNarrationEnd ==
  /\ setup = "su_narr"
  /\ isNarrating' = FALSE
  /\ setup' = "idle"
  /\ UNCHANGED <<chatHistory, nextMessageId, selectedGenre,
                 isGameScreenActive, isLoadingAdventure, isLoadingCharacter,
                 isLoadingScene, isCharacterGenerated,
                 isCompanionPresent, userResponseCount,
                 companionAppearanceThreshold, isListening, isProcessing,
                 isSpeaking, turn, listen, resetCount, setupCount, weaver,
                 sceneVars, audioVars, busVars, stt>>


(***************************************************************************)
(* The invocation slot a new call of processUserInput runs in.             *)
(***************************************************************************)
FreeSlot(s) ==
  /\ turn[s].pc = "idle"
  /\ \A r \in Slots : r < s => turn[r].pc # "idle"

(***************************************************************************)
(* A call of processUserInput that its guard turns away returns at once;   *)
(* the turns in flight remember that it happened.                          *)
(***************************************************************************)
MarkRejected ==
  [s \in Slots |->
     IF turn[s].pc \in BodyPcs THEN [turn[s] EXCEPT !.rejected = TRUE]
     ELSE turn[s]]

(***************************************************************************)
(* The number of the adventure that is going on: every call of             *)
(* resetFullAdventureState, by the quota reset, by the choice of a genre   *)
(* or by the start of the setup, ends one adventure and opens the next.    *)
(* A turn remembers the adventure it was accepted in.                      *)
(***************************************************************************)
Adventure == resetCount + setupCount

(***************************************************************************)
(* processUserInput up to its first await (decideResponse).                *)
(***************************************************************************)
Accepted(s, src, u) ==
  [IdleTurn EXCEPT
     !.pc = "classify",
     !.source = src,
     !.userInput = u,
     !.serial = userResponseCount + 1,
     !.adventure = Adventure,
     !.gameState = buildGameState,
     !.shouldIntroduceCompanion =
        ShouldIntroduceCompanion(isCompanionPresent, userResponseCount + 1,
                                 companionAppearanceThreshold)]

(***************************************************************************)
(* What the player can submit in the text box: the utterances, nothing,    *)
(* and spaces alone.                                                       *)
(***************************************************************************)
TypedTexts == Utterances \cup { << >>, <<" ", " ">> }

(***************************************************************************)
(* text.trim(), for texts whose only white space is the space.             *)
(***************************************************************************)
RECURSIVE Trim(_)
Trim(text) ==
  IF text = << >> THEN text
  ELSE IF Head(text) = " " THEN Trim(Tail(text))
  ELSE IF text[Len(text)] = " " THEN Trim(SubSeq(text, 1, Len(text) - 1))
  ELSE text

(***************************************************************************)
(* A test that lets every text through.                                    *)
(***************************************************************************)
IsBlankNever(text) == FALSE

(***************************************************************************)
(* !text.trim(): the text is empty or white space only.                    *)
(***************************************************************************)
IsBlank(text) == Trim(text) = << >>

(***************************************************************************)
(* handleTextInput(text): a blank text is dropped, any other is trimmed    *)
(* and handed to processUserInput.  limit caps the counter of accepted     *)
(* turns.                                                                  *)
(***************************************************************************)
HandleTextInput(u, limit) ==
  /\ IF IsBlank(u)
     THEN UNCHANGED <<turn, isProcessing, userResponseCount>>
     ELSE IF Rejects(isProcessing, isSpeaking)
     THEN /\ turn' = MarkRejected
          /\ UNCHANGED <<isProcessing, userResponseCount>>
     ELSE /\ userResponseCount < limit
          /\ \E s \in Slots :
               /\ FreeSlot(s)
               /\ turn' = [turn EXCEPT ![s] = Accepted(s, "text", Trim(u))]
          /\ isProcessing' = TRUE
          /\ userResponseCount' = userResponseCount + 1
  /\ UNCHANGED <<adventureVars, isCompanionPresent,
                 companionAppearanceThreshold, isListening, isSpeaking,
                 listen, setup, resetCount, setupCount, weaver,
                 sceneVars, audioVars, busVars, stt>>

(***************************************************************************)
(* startListening up to its await of the recogniser.  Both of its callers  *)
(* (onStartOrResumeAdventure behind the mic button, and the watcher of the *)
(* audio event bus) call it only for a generated character that is neither *)
(* narrating nor loading.                                                  *)
(***************************************************************************)
CanStartListening(generated, narrating, loading) ==
  generated /\ ~narrating /\ ~loading

StartListening ==
  /\ listen = "idle"
  /\ CanStartListening(isCharacterGenerated, isNarrating, isLoadingAdventure)
  /\ ~(isListening \/ isProcessing \/ isSpeaking \/ isNarrating)
  /\ isListening' = TRUE
  /\ listen' = "awaiting"
  /\ UNCHANGED <<adventureVars, isCompanionPresent, userResponseCount,
                 companionAppearanceThreshold, isProcessing, isSpeaking,
                 turn, setup, resetCount, setupCount, weaver,
                 sceneVars, audioVars, busVars, stt>>

(***************************************************************************)
(* The computed refs of the panel that its mic button goes by.             *)
(***************************************************************************)
isMicDisabled == isLoadingAdventure \/ isNarrating \/ isProcessing

waveformState ==
  CASE isLoadingAdventure /\ ~isCharacterGenerated -> "loading"
    [] ~(isLoadingAdventure /\ ~isCharacterGenerated) /\ isNarrating ->
         "narrating"
    [] ~(isLoadingAdventure /\ ~isCharacterGenerated) /\ ~isNarrating
       /\ isProcessing -> "connecting"
    [] ~(isLoadingAdventure /\ ~isCharacterGenerated) /\ ~isNarrating
       /\ ~isProcessing /\ isSpeaking -> "systemSpeaking"
    [] ~(isLoadingAdventure /\ ~isCharacterGenerated) /\ ~isNarrating
       /\ ~isProcessing /\ ~isSpeaking /\ isListening -> "userSpeaking"
    [] OTHER -> "idle"

(***************************************************************************)
(* handlePlayerStopClick: listening is stopped (the recogniser is told to  *)
(* stop, and its promise settles later); while the companion speaks only   *)
(* the status line is cleared.                                             *)
(***************************************************************************)
ListeningAfterStop(listening) == FALSE

SpeakingAfterStop(speaking) == speaking

HandlePlayerStopClick ==
  IF isListening
  THEN /\ isListening' = ListeningAfterStop(isListening)
       /\ UNCHANGED isSpeaking
  ELSE /\ isSpeaking' = SpeakingAfterStop(isSpeaking)
       /\ UNCHANGED isListening

(***************************************************************************)
(* micButtonClickHandler for the click of a player who wants to stop what  *)
(* is going on, that is while the companion speaks or the game listens.    *)
(* (The click that starts listening is StartListening.)  stopClicks counts *)
(* these clicks and bounds the model.                                      *)
(***************************************************************************)
MicButtonClick ==
  /\ isGameScreenActive
  /\ isSpeaking \/ isListening
  /\ stopClicks < MaxStopClicks
  /\ stopClicks' = stopClicks + 1
  /\ IF isNarrating
        \/ (isMicDisabled /\ waveformState # "systemSpeaking")
        \/ waveformState \notin {"systemSpeaking", "userSpeaking"}
     THEN UNCHANGED <<isListening, isSpeaking>>
     ELSE HandlePlayerStopClick
  /\ UNCHANGED <<adventureVars, isCompanionPresent, userResponseCount,
                 companionAppearanceThreshold, isProcessing,
                 turn, listen, setup, resetCount, setupCount, weaver,
                 sceneVars, micMuted, busVars, stt>>

(***************************************************************************)
(* The recogniser resolves with an utterance: startListening calls         *)
(* processUserInput; when that returns at once the finally block of        *)
(* startListening runs in the same step.                                   *)
(***************************************************************************)
SpeechRecognised(u, limit) ==
  /\ listen = "awaiting"
  /\ IF Rejects(isProcessing, isSpeaking)
     THEN /\ turn' = MarkRejected
          /\ isListening' = FALSE
          /\ listen' = "idle"
          /\ UNCHANGED <<isProcessing, userResponseCount>>
     ELSE /\ userResponseCount < limit
          /\ \E s \in Slots :
               /\ FreeSlot(s)
               /\ turn' = [turn EXCEPT ![s] = Accepted(s, "speech", u)]
          /\ isProcessing' = TRUE
          /\ userResponseCount' = userResponseCount + 1
          /\ listen' = "processing"
          /\ UNCHANGED isListening
  /\ UNCHANGED <<adventureVars, isCompanionPresent,
                 companionAppearanceThreshold, isSpeaking,
                 setup, resetCount, setupCount, weaver,
                 sceneVars, audioVars, busVars, stt>>

(***************************************************************************)
(* The recogniser rejects or resolves with a blank transcript.             *)
(***************************************************************************)
SpeechFailed ==
  /\ listen = "awaiting"
  /\ isListening' = FALSE
  /\ listen' = "idle"
  /\ UNCHANGED <<adventureVars, isCompanionPresent, userResponseCount,
                 companionAppearanceThreshold, isProcessing, isSpeaking,
                 turn, setup, resetCount, setupCount, weaver,
                 sceneVars, audioVars, busVars, stt>>


(***************************************************************************)
(* chatHistory.value.push of a message of turn t, and the note of it in    *)
(* the record of the turn.                                                 *)
(***************************************************************************)
Pushed(chat, t, sender, kind, id) == Append(chat, Message(id, sender))

Noted(t, kind, id) ==
  [t EXCEPT !.appended = Append(@, [kind |-> kind, id |-> id])]

NotedAll(t, kind, msgs) ==
  [t EXCEPT !.appended =
     @ \o [i \in 1..Len(msgs) |-> [kind |-> kind, id |-> msgs[i].id]]]

(***************************************************************************)
(* The handler has returned; processUserInput, which awaits it, goes on    *)
(* to its finally block in a later microtask.                              *)
(***************************************************************************)
Finished(t) == [t EXCEPT !.pc = "returned"]

(***************************************************************************)
(* playNarration up to its await: the narrator message of the turn is      *)
(* marked as being narrated, and the handler waits at pc for the playback. *)
(***************************************************************************)
Narrating(t, pc) == [t EXCEPT !.pc = pc, !.narrating = TRUE]

(***************************************************************************)
(* playNarration after its await: the mark is taken off in the try block   *)
(* and in the catch block alike.                                           *)
(***************************************************************************)
Narrated(t) == [t EXCEPT !.narrating = FALSE]

bodyFrame ==
  <<nextMessageId, selectedGenre, isGameScreenActive, isLoadingAdventure,
    isLoadingCharacter, isLoadingScene, isNarrating, isCharacterGenerated,
    userResponseCount, companionAppearanceThreshold, isListening, listen,
    setup, resetCount, setupCount, weaver, worldSetting,
    recentSceneElements, stopClicks>>

(***************************************************************************)
(* decideResponse returns: the override, the push of the user message and  *)
(* the dispatched handler up to its first await.                           *)
(***************************************************************************)
Classified(s, llm) ==
  /\ turn[s].pc = "classify"
  /\ LET t0 == turn[s]
         classified == decideResponse(llm, t0.userInput, t0.gameState)
         decision == ApplyOverride(classified, t0.shouldIntroduceCompanion)
         branch == Dispatch(decision.responseType)
         userId == NextId(chatHistory)
         chat1 == Pushed(chatHistory, t0, "user", "user", userId)
         t1 == Noted([t0 EXCEPT !.userInput = NoInput,
                                !.decision = decision,
                                !.dispatched = branch],
                     "user", userId)
         narratorId == NextId(chat1)
     IN CASE branch = "handleCompanionIntroduction" ->
               /\ isCompanionPresent' = TRUE
               /\ chatHistory' = chat1
               /\ turn' = [turn EXCEPT ![s] = [t1 EXCEPT !.pc = "ci_gen"]]
          [] branch \in {"handleExploration", "default"} ->
               /\ chatHistory' = chat1
               /\ turn' = [turn EXCEPT ![s] = [t1 EXCEPT !.pc = "ex_gen"]]
               /\ UNCHANGED isCompanionPresent
          [] branch = "handleDialogueAttempt" ->
               /\ chatHistory' =
                    Pushed(chat1, t1, "companion", "narrator", narratorId)
               /\ turn' = [turn EXCEPT ![s] =
                    Narrating(Noted(t1, "narrator", narratorId), "da_play")]
               /\ UNCHANGED isCompanionPresent
          [] branch = "handleExamination" ->
               /\ chatHistory' =
                    Pushed(chat1, t1, "companion", "narrator", narratorId)
               /\ turn' = [turn EXCEPT ![s] =
                    Narrating(Noted(t1, "narrator", narratorId), "exam_play")]
               /\ UNCHANGED isCompanionPresent
          [] branch = "handleCompanionDialogue" ->
               /\ chatHistory' = chat1
               /\ turn' = [turn EXCEPT ![s] = [t1 EXCEPT !.pc = "cd_gen"]]
               /\ UNCHANGED isCompanionPresent
  /\ UNCHANGED <<bodyFrame, currentLocationDescription, micMuted,
                 busVars, stt>>
  /\ UNCHANGED <<isProcessing, isSpeaking>>

(***************************************************************************)
(* handleCompanionIntroduction: generateCompanionIntroduction returns.     *)
(* usable = FALSE is a result the handler cannot read (JSON null), which   *)
(* takes the catch block.  The id of the narrator message is computed      *)
(* before the image is awaited.                                            *)
(***************************************************************************)
IntroductionGenerated(s, usable) ==
  /\ turn[s].pc = "ci_gen"
  /\ LET t == turn[s]
         id == NextId(chatHistory)
     IN IF ~usable
        THEN /\ chatHistory' = Pushed(chatHistory, t, "companion",
                                      "fallback", id)
             /\ turn' = [turn EXCEPT ![s] =
                           Finished(Noted(t, "fallback", id))]
             /\ isCompanionPresent' =
                  PresenceAfterIntroFallback(isCompanionPresent)
        ELSE IF t.decision.shouldGenerateImage
        THEN /\ turn' = [turn EXCEPT ![s] =
                           [t EXCEPT !.pc = "ci_img", !.msgId = id,
                                     !.imageRequested = TRUE]]
             /\ UNCHANGED <<chatHistory, isCompanionPresent>>
        ELSE /\ chatHistory' = Pushed(chatHistory, t, "companion",
                                      "narrator", id)
             /\ turn' = [turn EXCEPT ![s] =
                           Narrating(Noted(t, "narrator", id), "ci_play")]
             /\ UNCHANGED isCompanionPresent
  /\ UNCHANGED <<bodyFrame, currentLocationDescription, micMuted,
                 busVars, stt>>
  /\ UNCHANGED <<isProcessing, isSpeaking>>

(***************************************************************************)
(* generateSceneImage settles (it never rejects): the narrator message is  *)
(* pushed with the id computed before the await, and its narration starts. *)
(***************************************************************************)
IntroductionImageDone(s) ==
  /\ turn[s].pc = "ci_img"
  /\ LET t == turn[s] IN
       /\ chatHistory' = Pushed(chatHistory, t, "companion", "narrator",
                                t.msgId)
       /\ turn' = [turn EXCEPT ![s] =
                     Narrating(Noted(t, "narrator", t.msgId), "ci_play")]
  /\ UNCHANGED <<bodyFrame, currentLocationDescription, micMuted,
                 busVars, stt>>
  /\ UNCHANGED <<isCompanionPresent, isProcessing, isSpeaking>>

(***************************************************************************)
(* playNarration of the introduction ends or fails (it never throws): the  *)
(* first words of the companion are pushed and the handler returns.        *)
(***************************************************************************)
IntroductionNarrationEnd(s) ==
  /\ turn[s].pc = "ci_play"
  /\ LET t == turn[s]
         id == NextId(chatHistory)
     IN /\ chatHistory' = Pushed(chatHistory, t, "companion", "firstWords", id)
        /\ turn' = [turn EXCEPT ![s] =
                      Finished(Noted(Narrated(t), "firstWords", id))]
  /\ UNCHANGED <<bodyFrame, currentLocationDescription, micMuted,
                 busVars, stt>>
  /\ UNCHANGED <<isCompanionPresent, isProcessing, isSpeaking>>


(***************************************************************************)
(* The narration texts generateExplorationResponse can return, as the      *)
(* sequences of their lower-case words.                                    *)
(***************************************************************************)
NarrationTexts ==
  { <<"cave", "door", "tower">>, <<"lake", "caves", "temple">> }

(***************************************************************************)
(* An exploration that leaves the scene description as it was.             *)
(***************************************************************************)
SceneKept(current, narrationText) == current

(***************************************************************************)
(* currentLocationDescription after the narrator message of an exploration *)
(* has been pushed.                                                        *)
(***************************************************************************)
SceneAfterExploration(current, narrationText) == narrationText

(***************************************************************************)
(* handleExploration: generateExplorationResponse returns.  An unusable    *)
(* result takes the catch block, which pushes the fallback text and plays  *)
(* it.  Otherwise the image is awaited if the decision asks for one, the   *)
(* narrator message is pushed, the scene description is replaced and the   *)
(* narration is played.                                                    *)
(***************************************************************************)
ExplorationGenerated(s, usable, narrationText) ==
  /\ turn[s].pc = "ex_gen"
  /\ LET t == turn[s]
         t1 == [t EXCEPT !.narrationText = narrationText]
         id == NextId(chatHistory)
     IN IF ~usable
        THEN /\ chatHistory' = Pushed(chatHistory, t, "companion",
                                      "fallback", id)
             /\ turn' = [turn EXCEPT ![s] =
                           Narrating(Noted(t, "fallback", id), "ex_play")]
             /\ UNCHANGED currentLocationDescription
        ELSE IF t.decision.shouldGenerateImage
        THEN /\ turn' = [turn EXCEPT ![s] =
                           [t1 EXCEPT !.pc = "ex_img", !.msgId = id,
                                      !.imageRequested = TRUE]]
             /\ UNCHANGED <<chatHistory, currentLocationDescription>>
        ELSE /\ chatHistory' = Pushed(chatHistory, t1, "companion",
                                      "narrator", id)
             /\ currentLocationDescription' =
                  SceneAfterExploration(currentLocationDescription,
                                        narrationText)
             /\ turn' = [turn EXCEPT ![s] =
                           Narrating(Noted(t1, "narrator", id), "ex_play")]
  /\ UNCHANGED <<bodyFrame, micMuted, busVars, stt>>
  /\ UNCHANGED <<isCompanionPresent, isProcessing, isSpeaking>>

ExplorationImageDone(s) ==
  /\ turn[s].pc = "ex_img"
  /\ LET t == turn[s] IN
       /\ chatHistory' = Pushed(chatHistory, t, "companion", "narrator",
                                t.msgId)
       /\ currentLocationDescription' =
            SceneAfterExploration(currentLocationDescription,
                                  t.narrationText)
       /\ turn' = [turn EXCEPT ![s] =
                     Narrating(Noted(t, "narrator", t.msgId), "ex_play")]
  /\ UNCHANGED <<bodyFrame, micMuted, busVars, stt>>
  /\ UNCHANGED <<isCompanionPresent, isProcessing, isSpeaking>>

(***************************************************************************)
(* playNarration ends or fails at the end of handleExploration,            *)
(* handleDialogueAttempt or handleExamination: the handler returns.        *)
(***************************************************************************)
NarrationEnd(s) ==
  /\ turn[s].pc \in {"ex_play", "da_play", "exam_play"}
  /\ turn' = [turn EXCEPT ![s] = Finished(Narrated(turn[s]))]
  /\ UNCHANGED <<bodyFrame, currentLocationDescription, micMuted,
                 busVars, stt>>
  /\ UNCHANGED <<chatHistory, isCompanionPresent, isProcessing,
                 isSpeaking>>

(***************************************************************************)
(* A catch block that only logs.                                           *)
(***************************************************************************)
DialogueCatchSilent(id) == << >>

(***************************************************************************)
(* The catch block of handleCompanionDialogue: the messages it pushes.     *)
(***************************************************************************)
DialogueCatch(id) == << Message(id, "companion") >>

(***************************************************************************)
(* What the live audio component hands to its parent, which is all that    *)
(* liveAudioRef.value offers to the conversation manager.                  *)
(***************************************************************************)
LiveAudioExposed ==
  {"isRecording", "status", "error", "systemWaveformData",
   "userWaveformData", "selectedInterruptSensitivity",
   "interruptSensitivityOptions", "startRecording", "stopRecording",
   "sendInstructionToAI"}

(***************************************************************************)
(* if (liveAudioRef.value?.muteMicrophone) liveAudioRef.value              *)
(* .muteMicrophone(), and the same for unmuteMicrophone.                   *)
(***************************************************************************)
MuteMicrophone(muted) ==
  IF "muteMicrophone" \in LiveAudioExposed THEN TRUE ELSE muted

UnmuteMicrophone(muted) ==
  IF "unmuteMicrophone" \in LiveAudioExposed THEN FALSE ELSE muted

(***************************************************************************)
(* handleCompanionDialogue: conversationService.processUserInput returns   *)
(* the reply (pushed, then spoken with isSpeaking set and the microphone   *)
(* muted if the live audio component can) or throws (catch: the canned     *)
(* message).                                                               *)
(***************************************************************************)
ReplyGenerated(s, ok) ==
  /\ turn[s].pc = "cd_gen"
  /\ LET t == turn[s]
         id == NextId(chatHistory)
     IN IF ok
        THEN /\ chatHistory' = Pushed(chatHistory, t, "companion", "reply", id)
             /\ turn' = [turn EXCEPT ![s] =
                           [Noted(t, "reply", id) EXCEPT !.pc = "cd_speak"]]
             /\ isSpeaking' = TRUE
             /\ audioState' = startTTS("conversation")
             /\ micMuted' = MuteMicrophone(micMuted)
        ELSE /\ chatHistory' = chatHistory \o DialogueCatch(id)
             /\ turn' = [turn EXCEPT ![s] =
                           Finished(NotedAll(t, "fallback",
                                             DialogueCatch(id)))]
             /\ UNCHANGED <<isSpeaking, micMuted, audioState>>
  /\ UNCHANGED <<bodyFrame, currentLocationDescription, deferred, stt>>
  /\ UNCHANGED <<isCompanionPresent, isProcessing>>

(***************************************************************************)
(* An isSpeaking that is cleared after the await in the try block, which a *)
(* rejected speakText skips.                                               *)
(***************************************************************************)
SpeakingClearedOnSuccess(speaking, ok) == IF ok THEN FALSE ELSE speaking

(***************************************************************************)
(* isSpeaking after speakText has settled: the finally block clears it.    *)
(***************************************************************************)
SpeakingAfterSpeech(speaking, ok) == FALSE

(***************************************************************************)
(* speakText settles: the finally block clears isSpeaking and unmutes the  *)
(* microphone if the live audio component can; a rejection                 *)
(* then reaches the catch block of the handler, which pushes the canned    *)
(* message.                                                                *)
(***************************************************************************)
ReplySpoken(s, ok) ==
  /\ turn[s].pc = "cd_speak"
  /\ LET t == turn[s]
         id == NextId(chatHistory)
     IN IF ok
        THEN /\ turn' = [turn EXCEPT ![s] = Finished(t)]
             /\ UNCHANGED chatHistory
        ELSE /\ chatHistory' = chatHistory \o DialogueCatch(id)
             /\ turn' = [turn EXCEPT ![s] =
                           Finished(NotedAll(t, "fallback",
                                             DialogueCatch(id)))]
  /\ isSpeaking' = SpeakingAfterSpeech(isSpeaking, ok)
  /\ micMuted' = UnmuteMicrophone(micMuted)
  /\ audioState' = endTTS
  /\ deferred' = FALSE
  /\ UNCHANGED <<bodyFrame, currentLocationDescription, stt>>
  /\ UNCHANGED <<isCompanionPresent, isProcessing>>

(***************************************************************************)
(* The finally block of processUserInput: isProcessing is cleared and the  *)
(* 1500 ms timer is awaited.  Nothing but the caller waits for that timer: *)
(* handleTextInput has nothing left to do, startListening still has its    *)
(* finally block to run.                                                   *)
(***************************************************************************)
ProcessUserInputFinally(s) ==
  /\ turn[s].pc = "returned"
  /\ isProcessing' = FALSE
  /\ turn' = [turn EXCEPT ![s] = IdleTurn]
  /\ listen' = IF turn[s].source = "speech" THEN "delaying" ELSE listen
  /\ UNCHANGED <<adventureVars, isCompanionPresent, userResponseCount,
                 companionAppearanceThreshold, isListening, isSpeaking,
                 setup, resetCount, setupCount, weaver,
                 sceneVars, audioVars, busVars, stt>>

(***************************************************************************)
(* The timer fires for a recognised utterance: processUserInput returns    *)
(* and the finally block of startListening clears isListening.             *)
(***************************************************************************)
StartListeningFinally ==
  /\ listen = "delaying"
  /\ isListening' = FALSE
  /\ listen' = "idle"
  /\ UNCHANGED <<adventureVars, isCompanionPresent, userResponseCount,
                 companionAppearanceThreshold, isProcessing, isSpeaking,
                 turn, setup, resetCount, setupCount, weaver,
                 sceneVars, audioVars, busVars, stt>>

Next ==
  \/ HandleQuotaExceededDialog
  \/ HandleGenreSelected
  \/ HandleStartAdventureSetup
  \/ \E outcome \in {"valid", "invalid", "quota", "error"} :
       SetupGenerated(outcome)
  \/ SetupFallbackDone
  \/ SetupImageDone
  \/ SetupNarrationEnd
  \/ \E u \in TypedTexts : HandleTextInput(u, MaxSessionTurns)
  \/ StartListening
  \/ \E u \in Utterances : SpeechRecognised(u, MaxSessionTurns)
  \/ SpeechFailed
  \/ \E s \in Slots, llm \in LlmOutcomes : Classified(s, llm)
  \/ \E s \in Slots, usable \in BOOLEAN : IntroductionGenerated(s, usable)
  \/ \E s \in Slots : IntroductionImageDone(s)
  \/ \E s \in Slots : IntroductionNarrationEnd(s)
  \/ \E s \in Slots, usable \in BOOLEAN, text \in NarrationTexts :
       ExplorationGenerated(s, usable, text)
  \/ \E s \in Slots : ExplorationImageDone(s)
  \/ \E s \in Slots : NarrationEnd(s)
  \/ \E s \in Slots, ok \in BOOLEAN : ReplyGenerated(s, ok)
  \/ \E s \in Slots, ok \in BOOLEAN : ReplySpoken(s, ok)
  \/ \E s \in Slots : ProcessUserInputFinally(s)
  \/ StartListeningFinally

Spec == Init /\ [][Next]_vars

(***************************************************************************)
(* One adventure from the genre selection on, with typed and recognised    *)
(* utterances and without the quota reset of the live audio component.     *)
(***************************************************************************)
NextAdventure ==
  \/ HandleGenreSelected
  \/ HandleStartAdventureSetup
  \/ \E outcome \in {"valid", "invalid", "quota", "error"} :
       SetupGenerated(outcome)
  \/ SetupFallbackDone
  \/ SetupImageDone
  \/ SetupNarrationEnd
  \/ \E u \in TypedTexts : HandleTextInput(u, MaxSessionTurns)
  \/ StartListening
  \/ \E u \in Utterances : SpeechRecognised(u, MaxSessionTurns)
  \/ SpeechFailed
  \/ \E s \in Slots, llm \in LlmOutcomes : Classified(s, llm)
  \/ \E s \in Slots, usable \in BOOLEAN : IntroductionGenerated(s, usable)
  \/ \E s \in Slots : IntroductionImageDone(s)
  \/ \E s \in Slots : IntroductionNarrationEnd(s)
  \/ \E s \in Slots, usable \in BOOLEAN, text \in NarrationTexts :
       ExplorationGenerated(s, usable, text)
  \/ \E s \in Slots : ExplorationImageDone(s)
  \/ \E s \in Slots : NarrationEnd(s)
  \/ \E s \in Slots, ok \in BOOLEAN : ReplyGenerated(s, ok)
  \/ \E s \in Slots, ok \in BOOLEAN : ReplySpoken(s, ok)
  \/ \E s \in Slots : ProcessUserInputFinally(s)
  \/ StartListeningFinally

SpecAdventure == Init /\ [][NextAdventure]_vars

(***************************************************************************)
(* The same adventure with a player who also clicks the mic button to stop *)
(* the speech or the listening in progress.                                *)
(***************************************************************************)
NextControls ==
  \/ NextAdventure
  \/ MicButtonClick

SpecControls == Init /\ [][NextControls]_vars

(***************************************************************************)
(* The turn executor driven by typed text, with the reset that the live    *)
(* audio component can raise at any time, for as many turns as the largest *)
(* companion threshold needs.                                              *)
(***************************************************************************)
NextTurns ==
  \/ HandleQuotaExceededDialog
  \/ \E u \in TypedTexts : HandleTextInput(u, MaxTurns)
  \/ \E s \in Slots, llm \in LlmOutcomes : Classified(s, llm)
  \/ \E s \in Slots, usable \in BOOLEAN : IntroductionGenerated(s, usable)
  \/ \E s \in Slots : IntroductionImageDone(s)
  \/ \E s \in Slots : IntroductionNarrationEnd(s)
  \/ \E s \in Slots, usable \in BOOLEAN, text \in NarrationTexts :
       ExplorationGenerated(s, usable, text)
  \/ \E s \in Slots : ExplorationImageDone(s)
  \/ \E s \in Slots : NarrationEnd(s)
  \/ \E s \in Slots, ok \in BOOLEAN : ReplyGenerated(s, ok)
  \/ \E s \in Slots, ok \in BOOLEAN : ReplySpoken(s, ok)
  \/ \E s \in Slots : ProcessUserInputFinally(s)

SpecTurns == Init /\ [][NextTurns]_vars

(***************************************************************************)
(* A step of a turn in flight: a backend call of the turn returns or       *)
(* fails, a playback ends or fails, or the microtask that resumes          *)
(* processUserInput runs.                                                  *)
(***************************************************************************)
TurnStep ==
  \E s \in Slots :
    \/ \E llm \in LlmOutcomes : Classified(s, llm)
    \/ \E usable \in BOOLEAN : IntroductionGenerated(s, usable)
    \/ IntroductionImageDone(s)
    \/ IntroductionNarrationEnd(s)
    \/ \E usable \in BOOLEAN, text \in NarrationTexts :
         ExplorationGenerated(s, usable, text)
    \/ ExplorationImageDone(s)
    \/ NarrationEnd(s)
    \/ \E ok \in BOOLEAN : ReplyGenerated(s, ok)
    \/ \E ok \in BOOLEAN : ReplySpoken(s, ok)
    \/ ProcessUserInputFinally(s)

(***************************************************************************)
(* The adventure once it is set up: the state handleStartAdventureSetup    *)
(* leaves when its generation call, its scene image and the narration of   *)
(* the initial scene have all gone well, from which the player types and   *)
(* speaks.  resetCount and setupCount count from this state on.            *)
(***************************************************************************)
InitPlaying ==
  /\ chatHistory = << Message(0, "companion") >>
  /\ nextMessageId = 1
  /\ selectedGenre = "Fantasy"
  /\ isGameScreenActive = TRUE
  /\ isLoadingAdventure = FALSE
  /\ isLoadingCharacter = FALSE
  /\ isLoadingScene = FALSE
  /\ isNarrating = FALSE
  /\ isCharacterGenerated = TRUE
  /\ isCompanionPresent = FALSE
  /\ userResponseCount = 0
  /\ companionAppearanceThreshold \in MinThreshold..MaxThreshold
  /\ isListening = FALSE
  /\ isProcessing = FALSE
  /\ isSpeaking = FALSE
  /\ turn = [s \in Slots |-> IdleTurn]
  /\ listen = "idle"
  /\ setup = "idle"
  /\ resetCount = 0
  /\ setupCount = 0
  /\ worldSetting = NoInput
  /\ currentLocationDescription = NoInput
  /\ recentSceneElements = << >>
  /\ micMuted = FALSE
  /\ stopClicks = 0
  /\ audioState = IdleAudio
  /\ deferred = FALSE
  /\ stt = STTInit
  /\ weaver = NoCall

NextPlaying ==
  \/ \E u \in TypedTexts : HandleTextInput(u, MaxSessionTurns)
  \/ StartListening
  \/ \E u \in Utterances : SpeechRecognised(u, MaxSessionTurns)
  \/ SpeechFailed
  \/ \E s \in Slots, llm \in LlmOutcomes : Classified(s, llm)
  \/ \E s \in Slots, usable \in BOOLEAN : IntroductionGenerated(s, usable)
  \/ \E s \in Slots : IntroductionImageDone(s)
  \/ \E s \in Slots : IntroductionNarrationEnd(s)
  \/ \E s \in Slots, usable \in BOOLEAN, text \in NarrationTexts :
       ExplorationGenerated(s, usable, text)
  \/ \E s \in Slots : ExplorationImageDone(s)
  \/ \E s \in Slots : NarrationEnd(s)
  \/ \E s \in Slots, ok \in BOOLEAN : ReplyGenerated(s, ok)
  \/ \E s \in Slots, ok \in BOOLEAN : ReplySpoken(s, ok)
  \/ \E s \in Slots : ProcessUserInputFinally(s)
  \/ StartListeningFinally

SpecPlaying == InitPlaying /\ [][NextPlaying]_vars

(***************************************************************************)
(* The adventure that is set up, with everything the player and the        *)
(* program can do from there: the quota reset, the choice of a genre and   *)
(* the start of another adventure included.                                *)
(***************************************************************************)
SpecRestart == InitPlaying /\ [][Next]_vars

(***************************************************************************)
(* The same under the assumption that every backend call and every         *)
(* playback of a turn settles, and that the event loop runs the            *)
(* continuation of a settled await.                                        *)
(***************************************************************************)
SpecPlayingFair == SpecPlaying /\ WF_vars(TurnStep)

(***************************************************************************)
(* Narration texts, as the sequences of their lower-case words.            *)
(* PlaceNouns are the words of the model that the vocabulary of            *)
(* generateExplorationScene lists; "door" and the plural "caves" are not   *)
(* in it.                                                                  *)
(***************************************************************************)
PlaceNouns ==
  {"cave", "tower", "forest", "river", "bridge", "ruins", "lake", "temple"}

SceneNarrations ==
  { <<"cave", "door", "tower", "cave", "forest", "river", "bridge",
      "ruins", "lake">>,
    <<"lake", "caves", "temple", "cave", "door", "tower", "lake",
      "forest", "bridge">> }

Prefix(text, n) == SubSeq(text, 1, IF n < Len(text) THEN n ELSE Len(text))

SceneTexts ==
  {Prefix(text, n) : text \in SceneNarrations, n \in 0..MaxNarrationWords}

(***************************************************************************)
(* narrationText.toLowerCase().match(/\b(chamber|...|ruins)\b/g) || []:    *)
(* the place nouns of the text, in the order and as often as they occur.   *)
(***************************************************************************)
LocationKeywords(text) == SelectSeq(text, LAMBDA w : w \in PlaceNouns)

(***************************************************************************)
(* [...new Set(list)]: the elements of list in the order of their first    *)
(* occurrence.                                                             *)
(***************************************************************************)
RECURSIVE Distinct(_)
Distinct(list) ==
  IF list = << >> THEN << >>
  ELSE LET front == Distinct(SubSeq(list, 1, Len(list) - 1))
           last == list[Len(list)]
       IN IF \E i \in 1..Len(front) : front[i] = last
          THEN front
          ELSE Append(front, last)

(***************************************************************************)
(* list.slice(-n) for n > 0.                                               *)
(***************************************************************************)
SliceLast(list, n) ==
  IF Len(list) <= n THEN list ELSE SubSeq(list, Len(list) - n + 1, Len(list))

(***************************************************************************)
(* A fold that keeps every keyword it has seen.                            *)
(***************************************************************************)
FoldKeywordsUnbounded(recent, keywords) == Distinct(recent \o keywords)

(***************************************************************************)
(* recentSceneElements after a scene: [...new Set([...recent,              *)
(* ...locationKeywords])].slice(-5).                                       *)
(***************************************************************************)
FoldKeywords(recent, keywords) ==
  SliceLast(Distinct(recent \o keywords), SceneElementsKept)

(***************************************************************************)
(* The text of the first narrator message of the chat log, whose words the *)
(* model does not hold.                                                    *)
(***************************************************************************)
FirstNarratorText == <<"scene">>

(***************************************************************************)
(* generateExplorationScene(userAction) as a whole, with the scene text    *)
(* its generation call returns; ok = FALSE is a call that throws, which    *)
(* takes the catch block.  The conversation manager defines this function *)
(* and neither calls nor returns it, so it is taken on its own, from the   *)
(* initial state, where the chat log is empty and the world setting is     *)
(* therefore not initialised from it.                                      *)
(***************************************************************************)
GenerateExplorationScene(text, ok) ==
  /\ IF ok
     THEN /\ IF worldSetting = NoInput /\ Len(chatHistory) > 0
                /\ \E i \in 1..Len(chatHistory) :
                      chatHistory[i].sender = "companion"
             THEN worldSetting' = FirstNarratorText
             ELSE UNCHANGED worldSetting
          /\ currentLocationDescription' = text
          /\ recentSceneElements' =
               FoldKeywords(recentSceneElements, LocationKeywords(text))
     ELSE UNCHANGED sceneVars
  /\ UNCHANGED <<adventureVars, isCompanionPresent, userResponseCount,
                 companionAppearanceThreshold, isListening, isProcessing,
                 isSpeaking, turn, listen, setup, resetCount, setupCount,
                 weaver, audioVars, busVars, stt>>

NextKeywords ==
  \E text \in SceneTexts, ok \in BOOLEAN : GenerateExplorationScene(text, ok)

SpecKeywords == Init /\ [][NextKeywords]_vars

(***************************************************************************)
(* The classifier on its own: one call of decideResponse as                *)
(* processUserInput makes it, for every utterance, every companion         *)
(* presence, every count of accepted turns and every outcome of the        *)
(* backend, followed by the override and the switch of the executor.       *)
(***************************************************************************)
managerVars ==
  <<chatHistory, nextMessageId, selectedGenre, isGameScreenActive,
    isLoadingAdventure, isLoadingCharacter, isLoadingScene,
    isNarrating, isCharacterGenerated,
    isCompanionPresent, userResponseCount, companionAppearanceThreshold,
    isListening, isProcessing, isSpeaking,
    turn, listen, setup, resetCount, setupCount, sceneVars, audioVars,
    busVars, stt>>

WeaverCall(u, present, count) ==
  [NoCall EXCEPT
     !.pc = "called",
     !.userInput = u,
     !.gameState = [isCompanionPresent |-> present],
     !.shouldIntroduceCompanion =
        ShouldIntroduceCompanion(present, count,
                                 companionAppearanceThreshold)]

InitClassifier ==
  /\ ManagerInit
  /\ \E u \in Utterances, present \in BOOLEAN, count \in 1..MaxTurns :
       weaver = WeaverCall(u, present, count)

WeaverDecides(llm) ==
  /\ weaver.pc = "called"
  /\ weaver' = [weaver EXCEPT
                  !.pc = "decided",
                  !.llm = llm,
                  !.classified =
                     decideResponse(llm, weaver.userInput, weaver.gameState)]
  /\ UNCHANGED managerVars

WeaverDispatches ==
  /\ weaver.pc = "decided"
  /\ LET decision == ApplyOverride(weaver.classified,
                                   weaver.shouldIntroduceCompanion)
     IN weaver' = [weaver EXCEPT
                     !.pc = "dispatched",
                     !.decision = decision,
                     !.dispatched = Dispatch(decision.responseType)]
  /\ UNCHANGED managerVars

NextClassifier ==
  \/ \E llm \in LlmOutcomes : WeaverDecides(llm)
  \/ WeaverDispatches

SpecClassifier == InitClassifier /\ [][NextClassifier]_vars

(***************************************************************************)
(* onStartOrResumeAdventure, called through the binding the panel exposes. *)
(* It returns when the adventure is not ready; it returns when the bus     *)
(* reports TTS playing, and leaves the start of listening to the watcher;  *)
(* otherwise it calls startListening.                                      *)
(***************************************************************************)
OnStartOrResumeAdventure ==
  /\ CanStartListening(isCharacterGenerated, isNarrating, isLoadingAdventure)
  /\ IF audioState.isTTSPlaying
     THEN /\ deferred' = TRUE
          /\ UNCHANGED <<adventureVars, isCompanionPresent,
                         userResponseCount, companionAppearanceThreshold,
                         isListening, isProcessing, isSpeaking, turn, listen,
                         setup, resetCount, setupCount, weaver, sceneVars,
                         audioVars, audioState, stt>>
     ELSE StartListening

(***************************************************************************)
(* The adventure that is set up, with a player whose clicks reach          *)
(* onStartOrResumeAdventure at any time.                                   *)
(***************************************************************************)
NextDeferred ==
  \/ NextPlaying
  \/ OnStartOrResumeAdventure

SpecDeferred == InitPlaying /\ [][NextDeferred]_vars

(***************************************************************************)
(* The methods of the audio event bus called by a client of the exported   *)
(* singleton, in any order and at any time of the adventure that is set    *)
(* up.  The watcher of the bus runs with each change of its state.         *)
(***************************************************************************)
BusFrame ==
  <<adventureVars, isCompanionPresent, userResponseCount,
    companionAppearanceThreshold, isListening, isProcessing, isSpeaking,
    turn, listen, setup, resetCount, setupCount, weaver, sceneVars,
    audioVars, deferred, stt>>

BusStartTTS(source) ==
  /\ audioState' = startTTS(source)
  /\ UNCHANGED BusFrame

BusEndTTS ==
  /\ audioState' = endTTS
  /\ UNCHANGED BusFrame

BusPauseSTT ==
  /\ audioState' = pauseSTT(audioState)
  /\ UNCHANGED BusFrame

BusResumeSTT ==
  /\ audioState' = resumeSTT(audioState)
  /\ UNCHANGED BusFrame

BusReset ==
  /\ audioState' = reset
  /\ UNCHANGED BusFrame

NextAudioBus ==
  \/ NextPlaying
  \/ \E source \in {"conversation", "narration"} : BusStartTTS(source)
  \/ BusEndTTS
  \/ BusPauseSTT
  \/ BusResumeSTT
  \/ BusReset

SpecAudioBus == InitPlaying /\ [][NextAudioBus]_vars

(***************************************************************************)
(* The promise of call c settles: resolve and reject change nothing for a  *)
(* promise that is settled, and there is none before the first call.       *)
(***************************************************************************)
Settled(promise, c, how) ==
  IF c # 0 /\ promise[c] = "pending"
  THEN [promise EXCEPT ![c] = how]
  ELSE promise

(***************************************************************************)
(* The manager's isListening once a handler of the recogniser has run: the *)
(* finally block of the startListening whose promise has settled clears    *)
(* it.  (What startListening does with a transcript is the subject of      *)
(* SpeechRecognised.)                                                      *)
(***************************************************************************)
ListeningAfter(promise, c, listening) ==
  IF c # 0 /\ promise[c] = "pending" THEN FALSE ELSE listening

STTFrame ==
  <<chatHistory, nextMessageId, selectedGenre, isGameScreenActive,
    isLoadingAdventure, isLoadingCharacter, isLoadingScene, isNarrating,
    isCharacterGenerated, isCompanionPresent, userResponseCount,
    companionAppearanceThreshold, isProcessing, isSpeaking, turn, listen,
    setup, resetCount, setupCount, weaver, sceneVars, audioVars, busVars>>

(***************************************************************************)
(* startListening of the manager calls STTService.startListening: the      *)
(* call throws while the service is listening; otherwise the closures of   *)
(* this call become the handlers of the recogniser and recognition.start() *)
(* is called, which throws InvalidStateError for a session that has not    *)
(* ended.  A promise rejected at the call is awaited by the manager, whose *)
(* finally block clears its isListening.                                   *)
(***************************************************************************)
STTStartListening ==
  /\ stt.calls < MaxListenCalls
  /\ CanStartListening(isCharacterGenerated, isNarrating, isLoadingAdventure)
  /\ ~(isListening \/ isProcessing \/ isSpeaking \/ isNarrating)
  /\ LET c == stt.calls + 1
     IN IF stt.isListening
        THEN /\ stt' = [stt EXCEPT !.calls = c, !.promise[c] = "rejected"]
             /\ UNCHANGED isListening
        ELSE IF stt.session = "inactive"
        THEN /\ stt' = [stt EXCEPT !.calls = c, !.owner = c,
                                   !.finalTranscript = FALSE,
                                   !.hasSpokenSomething = FALSE,
                                   !.session = "starting",
                                   !.promise[c] = "pending"]
             /\ isListening' = TRUE
        ELSE /\ stt' = [stt EXCEPT !.calls = c, !.owner = c,
                                   !.finalTranscript = FALSE,
                                   !.hasSpokenSomething = FALSE,
                                   !.isListening = FALSE,
                                   !.promise[c] = "rejected"]
             /\ UNCHANGED isListening
  /\ UNCHANGED STTFrame

(***************************************************************************)
(* STTService.stopListening: recognition.stop() for a service that is      *)
(* listening, nothing otherwise.                                           *)
(***************************************************************************)
stopListening(s) ==
  IF s.isListening /\ s.session = "running"
  THEN [s EXCEPT !.session = "stopping"]
  ELSE s

(***************************************************************************)
(* stopListening of the manager, behind handlePlayerStopClick.             *)
(***************************************************************************)
ManagerStopListening ==
  /\ isListening
  /\ stt' = stopListening(stt)
  /\ isListening' = FALSE
  /\ UNCHANGED STTFrame

(***************************************************************************)
(* The 45 s timer of a call of startListening, or the silence timer of its *)
(* closures, fires and calls stopListening.                                *)
(***************************************************************************)
MaxListeningTimeReached ==
  /\ stt.isListening
  /\ stt.session = "running"
  /\ stt' = stopListening(stt)
  /\ UNCHANGED <<isListening, STTFrame>>

(***************************************************************************)
(* The events of the recogniser, each handled by the closures of the call  *)
(* that set the handlers last.                                             *)
(***************************************************************************)
RecogniserStart ==
  /\ stt.session = "starting"
  /\ stt' = [stt EXCEPT !.session = "running", !.isListening = TRUE]
  /\ UNCHANGED <<isListening, STTFrame>>

RecogniserResult(final) ==
  /\ stt.session \in {"running", "stopping"}
  /\ IF final
     THEN /\ stt' = [stopListening(stt) EXCEPT
                       !.finalTranscript = TRUE,
                       !.hasSpokenSomething = TRUE,
                       !.promise = Settled(stt.promise, stt.owner,
                                           "resolved")]
          /\ isListening' =
               ListeningAfter(stt.promise, stt.owner, isListening)
     ELSE /\ stt' = [stt EXCEPT !.hasSpokenSomething = TRUE]
          /\ UNCHANGED isListening
  /\ UNCHANGED STTFrame

RecogniserError ==
  /\ stt.session \in {"starting", "running", "stopping"}
  /\ stt' = [stt EXCEPT
               !.session = "failed",
               !.isListening = FALSE,
               !.promise = Settled(stt.promise, stt.owner, "rejected")]
  /\ isListening' = ListeningAfter(stt.promise, stt.owner, isListening)
  /\ UNCHANGED STTFrame

RecogniserEnd ==
  /\ stt.session \in {"running", "stopping", "failed"}
  /\ stt' = [stt EXCEPT
               !.session = "inactive",
               !.isListening = FALSE,
               !.promise =
                  Settled(stt.promise, stt.owner,
                          IF stt.finalTranscript THEN "resolved"
                                                 ELSE "rejected")]
  /\ isListening' = ListeningAfter(stt.promise, stt.owner, isListening)
  /\ UNCHANGED STTFrame

(***************************************************************************)
(* The speech recognition of the adventure that is set up: the player      *)
(* starts and stops listening with the mic button, and the recogniser      *)
(* reports its events.                                                     *)
(***************************************************************************)
NextRecogniser ==
  \/ STTStartListening
  \/ ManagerStopListening
  \/ MaxListeningTimeReached
  \/ RecogniserStart
  \/ \E final \in BOOLEAN : RecogniserResult(final)
  \/ RecogniserError
  \/ RecogniserEnd

SpecRecogniser == InitPlaying /\ [][NextRecogniser]_vars

TypeOK ==
  /\ isCompanionPresent \in BOOLEAN
  /\ userResponseCount \in 0..MaxTurns
  /\ companionAppearanceThreshold \in MinThreshold..MaxThreshold
  /\ \A s \in Slots : turn[s].pc \in BodyPcs \cup {"idle"}

(***************************************************************************)
(* Properties.                                                             *)
(***************************************************************************)
Started(t) == t.pc \in BodyPcs \ {"classify"}

InFlight == {s \in Slots : turn[s].pc \in BodyPcs}

(***************************************************************************)
(* C1 (SpecTurns).  Threshold override: when the turn that makes           *)
(* userResponseCount equal to companionAppearanceThreshold begins with the *)
(* companion absent, that turn is dispatched to the companion introduction *)
(* with responseType companion_introduction, whatever the classifier       *)
(* returned, and isCompanionPresent is true from the start of the handler  *)
(* on.                                                                     *)
(***************************************************************************)
C1_ThresholdOverride ==
  \A s \in Slots :
    ( /\ Started(turn[s])
      /\ ~turn[s].gameState.isCompanionPresent
      /\ turn[s].serial = companionAppearanceThreshold )
    => /\ turn[s].decision.responseType = "companion_introduction"
       /\ turn[s].dispatched = "handleCompanionIntroduction"
       /\ isCompanionPresent

(* The fifth turn of a session with threshold 5 is overridden: the        *)
(* introduction runs on a decision whose image flag the classifier never  *)
(* sets to false for an introduction of its own.                          *)
C1_Witness ==
  \E s \in Slots :
    /\ turn[s].pc = "ci_gen"
    /\ turn[s].serial = MaxThreshold
    /\ companionAppearanceThreshold = MaxThreshold
    /\ ~turn[s].gameState.isCompanionPresent
    /\ turn[s].dispatched = "handleCompanionIntroduction"
    /\ ~turn[s].decision.shouldGenerateImage
    /\ isCompanionPresent

(***************************************************************************)
(* C2 (SpecAdventure).  At most one turn is in flight: between the         *)
(* acceptance of a call of processUserInput and its finally block no       *)
(* other call, typed or recognised, is accepted, so two turn bodies never  *)
(* overlap.                                                                *)
(***************************************************************************)
C2_OneTurnInFlight == Cardinality(InFlight) <= 1

(* A call was turned away while the reply of the companion was spoken.    *)
C2_Witness ==
  \E s \in Slots :
    /\ turn[s].pc = "cd_speak"
    /\ turn[s].rejected
    /\ isSpeaking
    /\ isProcessing

(***************************************************************************)
(* C3 (SpecTurns).  Every accepted turn completes with a message: when the *)
(* dispatched handler has returned, whatever failed on the way, the turn   *)
(* has appended the user message and at least one narrator or companion    *)
(* message.  Every path of the handlers ends in the return, none raises.   *)
(***************************************************************************)
C3_TurnYieldsMessage ==
  \A s \in Slots :
    turn[s].pc = "returned" =>
      /\ Len(turn[s].appended) >= 2
      /\ turn[s].appended[1].kind = "user"
      /\ \E i \in 2..Len(turn[s].appended) : turn[s].appended[i].kind # "user"

(* The reply of the companion could not be generated: the turn returned   *)
(* with the canned message as its only answer.                            *)
C3_Witness ==
  \E s \in Slots :
    /\ turn[s].pc = "returned"
    /\ turn[s].dispatched = "handleCompanionDialogue"
    /\ Len(turn[s].appended) = 2
    /\ turn[s].appended[2].kind = "fallback"

(***************************************************************************)
(* C4 (SpecClassifier).  Every decision that decideResponse returns, from  *)
(* the parsed model output or from the fallback, has the image flag set    *)
(* for exploration and companion_introduction and cleared for              *)
(* dialogue_attempt and companion_dialogue.                                *)
(***************************************************************************)
C4_ForcedImageFlags ==
  weaver.pc # "called" =>
    /\ weaver.classified.responseType
         \in {"exploration", "companion_introduction"}
       => weaver.classified.shouldGenerateImage
    /\ weaver.classified.responseType
         \in {"dialogue_attempt", "companion_dialogue"}
       => ~weaver.classified.shouldGenerateImage

(* The model asked for an image with a companion_dialogue and the flag    *)
(* was cleared.                                                           *)
C4_Witness ==
  /\ weaver.pc = "decided"
  /\ weaver.llm.kind = "object"
  /\ weaver.llm.responseType = "companion_dialogue"
  /\ weaver.llm.shouldGenerateImage
  /\ ~weaver.classified.shouldGenerateImage

(***************************************************************************)
(* C5 (SpecTurns).  Every decision the turn executor dispatches with       *)
(* responseType companion_introduction or exploration has                  *)
(* shouldGenerateImage set, the decisions forced by the threshold override *)
(* included.                                                               *)
(***************************************************************************)
C5_DispatchedImageFlag ==
  \A s \in Slots :
    ( /\ Started(turn[s])
      /\ turn[s].decision.responseType
           \in {"companion_introduction", "exploration"} )
    => turn[s].decision.shouldGenerateImage

C7_IdsStrictlyIncreasing ==
  \A i \in 1..(Len(chatHistory) - 1) :
    chatHistory[i].id < chatHistory[i + 1].id

(***************************************************************************)
(* C8 (SpecClassifier).  When the generation call fails or its output      *)
(* cannot be used, the decision follows from the companion presence and    *)
(* the keywords of the lower-cased utterance alone: companion present      *)
(* gives companion_dialogue; else a greeting keyword gives                 *)
(* dialogue_attempt; else a look keyword gives examination; else           *)
(* exploration with an image.  Without a companion "hello" gives           *)
(* dialogue_attempt, "look around" examination, "run north" exploration.   *)
(***************************************************************************)
GreetingKeywords ==
  { <<"h","e","l","l","o">>, <<"h","i">>, <<"s","a","y">>,
    <<"t","a","l","k">> }

LookKeywords ==
  { <<"l","o","o","k">>, <<"e","x","a","m","i","n","e">>,
    <<"i","n","s","p","e","c","t">> }

C8_FallbackClassification ==
  (weaver.pc # "called" /\ weaver.llm.kind # "object") =>
    LET input == ToLowerCase(weaver.userInput)
        present == weaver.gameState.isCompanionPresent
        greets == \E k \in GreetingKeywords : Includes(input, k)
        looks == \E k \in LookKeywords : Includes(input, k)
        d == weaver.classified
    IN /\ present => d.responseType = "companion_dialogue"
       /\ (~present /\ greets) => d.responseType = "dialogue_attempt"
       /\ (~present /\ ~greets /\ looks) => d.responseType = "examination"
       /\ (~present /\ ~greets /\ ~looks) =>
            (d.responseType = "exploration" /\ d.shouldGenerateImage)
       /\ (~present /\ weaver.userInput = <<"h","e","l","l","o">>) =>
            d.responseType = "dialogue_attempt"
       /\ (~present /\
           weaver.userInput = <<"l","o","o","k"," ","a","r","o","u","n","d">>)
            => d.responseType = "examination"
       /\ (~present /\ weaver.userInput = <<"r","u","n"," ","n","o","r","t","h">>)
            => d.responseType = "exploration"

(* The output could not be parsed and the utterance holds a greeting and  *)
(* a look keyword: the greeting wins.                                     *)
C8_Witness ==
  /\ weaver.pc = "decided"
  /\ weaver.llm.kind = "unparsable"
  /\ ~weaver.gameState.isCompanionPresent
  /\ weaver.userInput = <<"s","a","y"," ","l","o","o","k">>
  /\ weaver.classified.responseType = "dialogue_attempt"

(***************************************************************************)
(* C9 (SpecClassifier).  For a parsed object a responseType outside the    *)
(* five valid values, a missing one included, is returned as exploration   *)
(* and a valid one unchanged; the switch of the executor never takes its   *)
(* default branch.                                                         *)
(***************************************************************************)
C9_EnumCoercion ==
  /\ (weaver.pc # "called" /\ weaver.llm.kind = "object") =>
       weaver.classified.responseType =
         IF weaver.llm.responseType \in ValidResponseTypes
         THEN weaver.llm.responseType
         ELSE "exploration"
  /\ weaver.pc = "dispatched" => weaver.dispatched # "default"

(* An object without responseType was dispatched as an exploration.       *)
C9_Witness ==
  /\ weaver.pc = "dispatched"
  /\ weaver.llm.kind = "object"
  /\ weaver.llm.responseType = "missing"
  /\ weaver.classified.responseType = "exploration"
  /\ weaver.dispatched = "handleExploration"

(***************************************************************************)
(* C10 (SpecTurns).  isCompanionPresent starts false and no step of a      *)
(* turn, handler or failure path sets it back to false.                    *)
(***************************************************************************)
C10_PresenceMonotone ==
  /\ ~isCompanionPresent
  /\ [][isCompanionPresent => isCompanionPresent']_vars

(* The introduction failed into its catch block and the companion is      *)
(* still present when the handler has returned.                           *)
C10_Witness ==
  \E s \in Slots :
    /\ turn[s].pc = "returned"
    /\ turn[s].dispatched = "handleCompanionIntroduction"
    /\ \E i \in 1..Len(turn[s].appended) : turn[s].appended[i].kind = "fallback"
    /\ isCompanionPresent

(***************************************************************************)
(* The turns whose handler is awaiting a playback of synthesized speech:   *)
(* the narrator through playNarration, the companion through speakText.    *)
(***************************************************************************)
PlayPcs == {"ci_play", "ex_play", "da_play", "exam_play", "cd_speak"}

SpeechPlaying == {s \in Slots : turn[s].pc \in PlayPcs}

(***************************************************************************)
(* C11 (SpecTurns).  Mute discipline: while a playback of synthesized      *)
(* speech started by a turn is running (narrator or companion) the         *)
(* microphone input is muted, and it is unmuted when no playback is        *)
(* running.                                                                *)
(***************************************************************************)
C11_MuteDiscipline == micMuted <=> SpeechPlaying # {}

(***************************************************************************)
(* C12 (SpecAdventure).  Listening and synthesized speech exclude each     *)
(* other: isListening is never set while narrator or companion speech      *)
(* started by a turn is playing, whether the turn came from typed text or  *)
(* from a recognised utterance.                                            *)
(***************************************************************************)
C12_ListeningExcludesSpeech == ~(isListening /\ SpeechPlaying # {})

(***************************************************************************)
(* C13 (SpecControls).  Cancellation: a stop click made while synthesized  *)
(* speech is playing halts the playback and clears isSpeaking in that very *)
(* step, and leaves the chat log as it was.                                *)
(***************************************************************************)
C13_StopHaltsSpeech ==
  [][(stopClicks' # stopClicks /\ isSpeaking)
       => /\ ~isSpeaking'
          /\ \A s \in Slots : turn'[s].pc # "cd_speak"
          /\ chatHistory' = chatHistory]_vars

(***************************************************************************)
(* C14 (SpecPlayingFair).  Every accepted turn finishes: if the backend    *)
(* calls and playbacks of a turn settle, isProcessing becomes false again; *)
(* and in the step that clears it isSpeaking is false and no message of    *)
(* the turn is still marked as being narrated, whether the speech of the   *)
(* turn succeeded or failed.                                               *)
(***************************************************************************)
C14_TurnsFinish ==
  /\ isProcessing ~> ~isProcessing
  /\ [][(isProcessing /\ ~isProcessing')
          => /\ ~isSpeaking'
             /\ \A s \in Slots : ~turn[s].narrating /\ ~turn'[s].narrating]_vars

(***************************************************************************)
(* The first turn of the adventure has finished after the speech of its    *)
(* companion reply failed: the chat log holds the initial scene, the user  *)
(* message, the reply and the canned message of the catch block.           *)
(***************************************************************************)
C14_Witness ==
  /\ ~isProcessing
  /\ ~isSpeaking
  /\ \A s \in Slots : turn[s].pc = "idle"
  /\ userResponseCount = 1
  /\ ~isCompanionPresent
  /\ Len(chatHistory) = 4

(***************************************************************************)
(* C15 (SpecKeywords).  recentSceneElements never holds more than 5        *)
(* entries, after any number of scenes and for narrations with any number  *)
(* of location keywords.                                                   *)
(***************************************************************************)
C15_RecentElementsBounded == Len(recentSceneElements) <= 5

(***************************************************************************)
(* The narration of the last scene alone named more than 5 different       *)
(* places, and the list holds 5.                                           *)
(***************************************************************************)
C15_Witness ==
  /\ Len(recentSceneElements) = 5
  /\ Cardinality({LocationKeywords(currentLocationDescription)[i] :
                    i \in 1..Len(LocationKeywords(
                                   currentLocationDescription))}) > 5

(***************************************************************************)
(* C16 (SpecPlaying).  userResponseCount never decreases; every step       *)
(* changes it by the number of utterances the step accepts as a turn,      *)
(* which is at most one; an accepted utterance is not blank; and no        *)
(* utterance is accepted, so the count stays, while a turn is in flight.   *)
(***************************************************************************)
C16_CountTracksAcceptance ==
  [][LET accepted == {s \in Slots : /\ turn[s].pc = "idle"
                                    /\ turn'[s].pc = "classify"}
     IN /\ Cardinality(accepted) <= 1
        /\ userResponseCount' = userResponseCount + Cardinality(accepted)
        /\ \A s \in accepted :
             \E i \in 1..Len(turn'[s].userInput) :
               turn'[s].userInput[i] # " "
        /\ InFlight # {} => accepted = {}]_vars

(***************************************************************************)
(* The second accepted turn has seen an utterance turned away while it was *)
(* in flight, and the count is still 2.                                    *)
(***************************************************************************)
C16_Witness ==
  \E s \in Slots :
    /\ turn[s].pc \in BodyPcs
    /\ turn[s].rejected
    /\ turn[s].serial = 2
    /\ userResponseCount = 2

(***************************************************************************)
(* The session state of a fresh adventure.                                 *)
(***************************************************************************)
FreshSession ==
  /\ ~isCompanionPresent
  /\ userResponseCount = 0
  /\ recentSceneElements = << >>
  /\ currentLocationDescription = NoInput
  /\ worldSetting = NoInput
  /\ chatHistory = << >>

Explored(t) ==
  /\ t.pc \in {"ex_play", "returned"}
  /\ t.dispatched \in {"handleExploration", "default"}
  /\ \E i \in 1..Len(t.appended) : t.appended[i].kind = "narrator"

(***************************************************************************)
(* C18 (SpecPlaying).  currentLocationDescription is the narration text of *)
(* an exploration turn from the push of its narrator message until the     *)
(* turn ends, and no step of a dialogue_attempt, examination or            *)
(* companion_dialogue turn (nor any other step) changes it.                *)
(***************************************************************************)
C18_SceneFollowsExploration ==
  /\ [][\A s \in Slots :
          Explored(turn'[s])
            => currentLocationDescription' = turn'[s].narrationText]_vars
  /\ [][currentLocationDescription' # currentLocationDescription
          => \E s \in Slots : /\ turn[s].pc \in {"ex_gen", "ex_img"}
                              /\ Explored(turn'[s])]_vars

(***************************************************************************)
(* An exploration turn that started in the scene of an earlier exploration *)
(* has returned with another narration, which is the scene now.            *)
(***************************************************************************)
C18_Witness ==
  \E s \in Slots :
    /\ turn[s].pc = "returned"
    /\ Explored(turn[s])
    /\ turn[s].gameState.currentScene \in NarrationTexts
    /\ turn[s].gameState.currentScene # turn[s].narrationText
    /\ currentLocationDescription = turn[s].narrationText

(***************************************************************************)
(* C19 (SpecPlaying).  Keyword folding: once an exploration turn has       *)
(* pushed its narration, the place nouns of that narration (no more than 5 *)
(* in the narrations of the model) are in recentSceneElements, where the   *)
(* game state of the next turn takes them from.                            *)
(***************************************************************************)
C19_ExplorationFoldsKeywords ==
  \A s \in Slots :
    (turn[s].pc = "returned" /\ Explored(turn[s]))
      => \A i \in 1..Len(LocationKeywords(turn[s].narrationText)) :
           \E j \in 1..Len(recentSceneElements) :
             recentSceneElements[j] =
               LocationKeywords(turn[s].narrationText)[i]

(***************************************************************************)
(* C20 (SpecPlaying).  Examination with image: an examination turn has     *)
(* requested a scene image exactly if its decision has shouldGenerateImage *)
(* set.                                                                    *)
(***************************************************************************)
C20_ExaminationImage ==
  \A s \in Slots :
    (turn[s].pc \in {"exam_play", "returned"}
       /\ turn[s].dispatched = "handleExamination")
      => (turn[s].imageRequested <=> turn[s].decision.shouldGenerateImage)

(***************************************************************************)
(* The turns that run handleCompanionIntroduction outside its catch block. *)
(***************************************************************************)
Introducing(t) ==
  /\ t.dispatched = "handleCompanionIntroduction"
  /\ \A i \in 1..Len(t.appended) : t.appended[i].kind # "fallback"

C22_RoutingFollowsPresence ==
  \A s \in Slots :
    Started(turn[s])
      => /\ turn[s].dispatched = "handleCompanionDialogue"
              => turn[s].gameState.isCompanionPresent
         /\ turn[s].dispatched = "handleDialogueAttempt"
              => ~turn[s].gameState.isCompanionPresent

(***************************************************************************)
(* C23 (SpecTurns).  The companion is introduced at most once: no turn     *)
(* accepted with the companion present is dispatched to                    *)
(* handleCompanionIntroduction, whatever the classifier returned.          *)
(***************************************************************************)
C23_IntroducedOnce ==
  \A s \in Slots :
    (Started(turn[s])
       /\ turn[s].dispatched = "handleCompanionIntroduction")
      => ~turn[s].gameState.isCompanionPresent

(***************************************************************************)
(* The kinds of the messages a turn has appended.                          *)
(***************************************************************************)
AppendedKinds(t) == {t.appended[i].kind : i \in 1..Len(t.appended)}

(***************************************************************************)
(* C24 (SpecPlaying).  A companion_dialogue turn whose reply was generated *)
(* appends that reply and no other companion message, also when the speech *)
(* of the reply fails; the canned message of the catch block is appended   *)
(* only if the generation of the reply failed.                             *)
(***************************************************************************)
C24_SpeechFailureKeepsOneReply ==
  \A s \in Slots :
    turn[s].dispatched = "handleCompanionDialogue"
      => ~({"reply", "fallback"} \subseteq AppendedKinds(turn[s]))

(***************************************************************************)
(* The playbacks of synthesized speech that are running: the narration of  *)
(* the initial scene, started by the adventure setup without being         *)
(* awaited, and the playbacks the turns await.                             *)
(***************************************************************************)
ActivePlaybacks ==
  (IF setup = "su_narr" THEN 1 ELSE 0) + Cardinality(SpeechPlaying)

(***************************************************************************)
(* C25 (SpecAdventure).  At most one playback of synthesized speech is     *)
(* running at any time: the narration of the initial scene, the narrator   *)
(* speech of a turn and the companion speech of a turn never overlap.      *)
(***************************************************************************)
C25_OnePlaybackAtATime == ActivePlaybacks <= 1

(***************************************************************************)
(* The turns in flight that were accepted in an adventure that a reset has *)
(* ended since.                                                            *)
(***************************************************************************)
Stale(t) == t.pc \in BodyPcs /\ t.adventure # Adventure

WatcherNeverResumes == [][~WatcherResumes(audioState', audioState)]_vars

(***************************************************************************)
(* C27 (SpecDeferred).  Deferred listening: a call of                      *)
(* onStartOrResumeAdventure made while the bus reports TTS playing returns *)
(* without starting to listen, and when that TTS ends with the character   *)
(* generated and neither narration nor loading in progress, the watcher of *)
(* the bus starts listening.                                               *)
(***************************************************************************)
C27_DeferredListening ==
  [][ /\ (~deferred /\ deferred') => UNCHANGED <<isListening, listen>>
      /\ ( /\ deferred
           /\ audioState.isTTSPlaying /\ ~audioState'.isTTSPlaying
           /\ CanStartListening(isCharacterGenerated', isNarrating',
                                isLoadingAdventure') )
         => WatcherResumes(audioState', audioState) ]_vars

(***************************************************************************)
(* C28 (SpecAudioBus).  Exclusion on the audio event bus: whatever the     *)
(* sequence of startTTS, endTTS, pauseSTT, resumeSTT and reset calls, the  *)
(* state of the bus never has isTTSPlaying and isSTTActive both true.      *)
(***************************************************************************)
C28_BusExclusion == ~(audioState.isTTSPlaying /\ audioState.isSTTActive)

(***************************************************************************)
(* C30 (SpecRecogniser).  The promises of STTService.startListening        *)
(* settle: once the recognition session has ended or was never started, no *)
(* promise that a call of startListening returned is pending, whatever     *)
(* calls of stopListening or startListening were made before the           *)
(* recogniser reported onstart.                                            *)
(***************************************************************************)
C30_PromisesSettle ==
  stt.session = "inactive" =>
    \A c \in ListenCalls : stt.promise[c] # "pending"

(***************************************************************************)
(* C29 (SpecAdventure).  The setup leaves the loading state: when no       *)
(* invocation of handleStartAdventureSetup is awaiting a backend call      *)
(* (none was made, or the last one has run its finally block), none of     *)
(* isLoadingAdventure, isLoadingCharacter and isLoadingScene is true,      *)
(* whether the generation succeeded, its data failed the validation, or a  *)
(* backend call threw.                                                     *)
(***************************************************************************)
C29_SetupLeavesLoading ==
  setup \in {"idle", "su_narr"} =>
    ~(isLoadingAdventure \/ isLoadingCharacter \/ isLoadingScene)

====
